---- MODULE Spec2Model ----
(***************************************************************************)
(* Flownix backend: the dataset registry, the temp directory and the two   *)
(* request handlers of backend/app/api/routes.py, upload_dataset and       *)
(* analyze_dataset, with the profile computation analyze_dataset performs. *)
(*                                                                         *)
(* Representation.  A file name or path is a sequence of one-character     *)
(* strings (a dataset id is one token of it).  A file's bytes are          *)
(* represented by what the pandas reader makes of them: a table (column    *)
(* dtypes and rows of cells) or the exception class the reader raises.     *)
(* A cell is <<>> (null/NaN) or <<v>>.  A number the code rounds to two    *)
(* decimals is a count of hundredths, rounded half to even.                *)
(***************************************************************************)
EXTENDS Integers, Sequences, FiniteSets, TLC

VARIABLES
    up,                 \* the upload requests: position in upload_dataset and its locals
    datasets_metadata,  \* routes.py datasets_metadata: dataset id -> dataset_info
    disk,               \* the files under settings.TEMP_DIR: path -> content
    issued,             \* the dataset ids uuid4 has returned so far
    last,               \* the latest analyze_dataset call: what it found and its response
    nExternal           \* changes made to the temp directory from outside the process

vars == <<up, datasets_metadata, disk, issued, last, nExternal>>

\* ------------------------------------------------------------------ bounds
MaxUploads == 2
MaxExternal == 1

Uploads == 1..MaxUploads
\* the values of str(uuid.uuid4()): one more than the uploads can use up
IdNames == <<"id1", "id2", "id3", "id4", "id5", "id6">>
Ids == { IdNames[i] : i \in 1..(MaxUploads + 1) }

\* ------------------------------------------------------------------ config
MAX_UPLOAD_SIZE == 100 * 1024 * 1024

TEMP_DIR == <<".", "/", "t", "e", "m", "p">>

SUPPORTED_EXTENSIONS ==
    { <<".", "c", "s", "v">>, <<".", "x", "l", "s", "x">>, <<".", "x", "l", "s">>,
      <<".", "j", "s", "o", "n">>, <<".", "p", "a", "r", "q", "u", "e", "t">> }

\* a float is a record: NaN, or a count of hundredths
NaN == [nan |-> TRUE, v |-> 0]
Num(v) == [nan |-> FALSE, v |-> v]

\* an optional value: None is <<>>, a present value v is <<v>>
None == <<>>
Some(v) == <<v>>

\* ------------------------------------------------------------------ strings
Range(s) == { s[i] : i \in DOMAIN s }

LastIndexOf(s, ch) ==
    LET hits == { i \in DOMAIN s : s[i] = ch }
    IN  IF hits = {} THEN 0 ELSE CHOOSE i \in hits : \A j \in hits : j <= i

\* str.lower() on one character
LowerChar(ch) ==
    CASE ch = "C" -> "c" [] ch = "S" -> "s" [] ch = "V" -> "v" [] ch = "J" -> "j"
      [] ch = "O" -> "o" [] ch = "N" -> "n" [] ch = "T" -> "t" [] ch = "X" -> "x"
      [] ch = "D" -> "d" [] OTHER -> ch

Lower(s) == [ i \in DOMAIN s |-> LowerChar(s[i]) ]

\* str.upper() on one character
UpperChar(ch) ==
    CASE ch = "c" -> "C" [] ch = "s" -> "S" [] ch = "v" -> "V" [] ch = "j" -> "J"
      [] ch = "o" -> "O" [] ch = "n" -> "N" [] ch = "t" -> "T" [] ch = "x" -> "X"
      [] ch = "p" -> "P" [] ch = "a" -> "A" [] ch = "r" -> "R" [] ch = "q" -> "Q"
      [] ch = "u" -> "U" [] ch = "e" -> "E" [] ch = "l" -> "L" [] ch = "d" -> "D"
      [] OTHER -> ch

\* pathlib: Path(p).name, the part after the last separator
PathName(p) ==
    LET k == LastIndexOf(p, "/")
    IN  SubSeq(p, k + 1, Len(p))

\* pathlib: Path(p).suffix, the last dot of the name and what follows it, unless
\* the dot is the name's first or last character
Suffix(p) ==
    LET name == PathName(p)
        i == LastIndexOf(name, ".")
    IN  IF 1 < i /\ i < Len(name) THEN SubSeq(name, i, Len(name)) ELSE <<>>

\* Path(...).suffix.lower()
FileExt(p) == Lower(Suffix(p))

\* os.path.join(settings.TEMP_DIR, f"{dataset_id}{file_ext}")
FilePath(dataset_id, file_ext) == TEMP_DIR \o <<"/", dataset_id>> \o file_ext

\* file_ext.replace('.', '').upper()
FileType(file_ext) ==
    LET kept == SelectSeq(file_ext, LAMBDA ch : ch # ".")
    IN  [ i \in DOMAIN kept |-> UpperChar(kept[i]) ]

\* ------------------------------------------------------------------ file contents
\* what pd.read_csv / read_excel / read_json / read_parquet make of a file's bytes
Table(columns, dtypes, rows) ==
    [kind |-> "table", error |-> "", columns |-> columns, dtypes |-> dtypes, rows |-> rows]

Unreadable(cls) ==
    [kind |-> "unreadable", error |-> cls, columns |-> <<>>, dtypes |-> <<>>, rows |-> <<>>]

\* the file aiofiles.open(..., 'wb') has created and f.write has not filled
Truncated ==
    [kind |-> "truncated", error |-> "EmptyDataError", columns |-> <<>>, dtypes |-> <<>>,
     rows |-> <<>>]

\* ------------------------------------------------------------------ arithmetic
RECURSIVE SumSeq(_)
SumSeq(s) == IF s = <<>> THEN 0 ELSE s[1] + SumSeq(Tail(s))

Abs(x) == IF x < 0 THEN -x ELSE x

MinOf(S) == CHOOSE x \in S : \A y \in S : x <= y
MaxOf(S) == CHOOSE x \in S : \A y \in S : y <= x

\* a / b rounded to an integer, ties to even (a >= 0, b > 0)
RoundDiv(a, b) ==
    LET q == a \div b
        r == a % b
    IN  IF 2 * r < b THEN q
        ELSE IF 2 * r > b THEN q + 1
        ELSE IF q % 2 = 0 THEN q ELSE q + 1

\* round(a / b * 100, 2) in hundredths; a numpy 0 / 0 is NaN
Percent(a, b) == IF b = 0 THEN NaN ELSE Num(RoundDiv(a * 10000, b))

\* round((1 - a / b) * 100, 2) in hundredths; a numpy 0 / 0 is NaN
OneMinusPercent(a, b) == IF b = 0 THEN NaN ELSE Num(RoundDiv((b - a) * 10000, b))

\* ------------------------------------------------------------------ dataframe
\* len(df), len(df.columns), df.empty
NRows(df) == Len(df.rows)
NCols(df) == Len(df.columns)
IsEmpty(df) == NRows(df) = 0 \/ NCols(df) = 0

ColIndex(df, c) == CHOOSE i \in DOMAIN df.columns : df.columns[i] = c
DtypeOf(df, c) == df.dtypes[ColIndex(df, c)]

\* df[c]: the cells of column c, top to bottom
Column(df, c) == [ r \in 1..NRows(df) |-> df.rows[r][ColIndex(df, c)] ]

\* the non-null values of column c, top to bottom
Values(df, c) ==
    LET kept == SelectSeq(Column(df, c), LAMBDA cell : cell # <<>>)
    IN  [ i \in DOMAIN kept |-> kept[i][1] ]

\* whether a select_dtypes selector takes a dtype; np.timedelta64 is a subclass of
\* np.number, and 'datetime' takes only the timezone-naive datetime64
DtypeSelected(dtype, selector) ==
    CASE selector = "number" -> dtype \in {"int64", "float64", "timedelta64[ns]"}
      [] selector = "object" -> dtype = "object"
      [] selector = "category" -> dtype = "category"
      [] selector = "datetime" -> dtype = "datetime64[ns]"
      [] selector = "datetime64" -> dtype = "datetime64[ns]"
      [] selector = "bool" -> dtype = "bool"
      [] OTHER -> FALSE

\* df.select_dtypes(include=[...]).columns.tolist()
select_dtypes(df, include) ==
    SelectSeq(df.columns, LAMBDA c : \E sel \in include : DtypeSelected(DtypeOf(df, c), sel))

\* df.isnull().sum().to_dict()
isnull_sum(df) ==
    [ c \in Range(df.columns) |->
        Cardinality({ r \in 1..NRows(df) : Column(df, c)[r] = <<>> }) ]

\* int(df.isnull().sum().sum())
total_missing(df) ==
    SumSeq([ i \in DOMAIN df.columns |-> isnull_sum(df)[df.columns[i]] ])

\* int(df.duplicated().sum()): the rows equal to an earlier row
duplicated_sum(df) ==
    Cardinality({ i \in 1..NRows(df) : \E j \in 1..(i - 1) : df.rows[j] = df.rows[i] })

\* df.head(5) and df.tail(5), as lists of rows
Head5(df) == SubSeq(df.rows, 1, IF NRows(df) < 5 THEN NRows(df) ELSE 5)
Tail5(df) == SubSeq(df.rows, IF NRows(df) < 5 THEN 1 ELSE NRows(df) - 4, NRows(df))

\* ------------------------------------------------------------------ profile
\* routes.py 212-230.  Of describe()'s rows the model keeps the ones integers
\* express exactly (count, min, max); mean, std, the quartiles, skewness and
\* kurtosis are floating-point results of pandas and are left out.
NumericColumnStats(df, col) ==
    LET vals == Values(df, col)
        present == Range(vals)
    IN  [ count |-> Len(vals),
          min |-> IF present = {} THEN None ELSE Some(MinOf(present)),
          max |-> IF present = {} THEN None ELSE Some(MaxOf(present)),
          zeros_count |-> Cardinality({ i \in DOMAIN vals : vals[i] = 0 }),
          negative_count |->
              IF DtypeOf(df, col) \in {"int64", "float64"}
              THEN Cardinality({ i \in DOMAIN vals : vals[i] < 0 })
              ELSE 0 ]

numeric_stats(df, numeric_cols) ==
    IF numeric_cols # <<>>
    THEN [ col \in Range(numeric_cols) |-> NumericColumnStats(df, col) ]
    ELSE <<>>

\* routes.py 232-240.  value_counts().head(10) keeps every value of a column of
\* at most ten distinct values.
CategoricalColumnStats(df, col) ==
    LET vals == Values(df, col)
        unique_count == Cardinality(Range(vals))
    IN  [ unique_values |-> unique_count,
          top_values |->
              [ v \in Range(vals) |-> Cardinality({ i \in DOMAIN vals : vals[i] = v }) ],
          cardinality |->
              IF 2 * unique_count > NRows(df) THEN "high"
              ELSE IF unique_count > 10 THEN "medium" ELSE "low" ]

categorical_stats(df, categorical_cols) ==
    [ col \in Range(categorical_cols) |-> CategoricalColumnStats(df, col) ]

\* routes.py 242-249.  A datetime value is a day number; str(NaT) is None here.
DatetimeColumnStats(df, col) ==
    LET present == Range(Values(df, col))
    IN  [ min_date |-> IF present = {} THEN None ELSE Some(MinOf(present)),
          max_date |-> IF present = {} THEN None ELSE Some(MaxOf(present)),
          range_days |->
              IF present = {} THEN None ELSE Some(MaxOf(present) - MinOf(present)) ]

datetime_stats(df, datetime_cols) ==
    [ col \in Range(datetime_cols) |-> DatetimeColumnStats(df, col) ]

\* df[[x, y]].corr(): Pearson over the rows where both are present.  With
\* n observations, c = n*Sxy - Sx*Sy, vx = n*Sxx - Sx^2, vy = n*Syy - Sy^2, the
\* coefficient is c / sqrt(vx * vy), and NaN when vx or vy is 0.
\* abs(corr_val) > 0.7 is 100 * c^2 > 49 * vx * vy; abs(NaN) > 0.7 is False.
HighCorr(df, x, y) ==
    LET both == { r \in 1..NRows(df) : Column(df, x)[r] # <<>> /\ Column(df, y)[r] # <<>> }
        idx == SelectSeq([ r \in 1..NRows(df) |-> r ], LAMBDA r : r \in both)
        xs == [ i \in DOMAIN idx |-> Column(df, x)[idx[i]][1] ]
        ys == [ i \in DOMAIN idx |-> Column(df, y)[idx[i]][1] ]
        n == Len(idx)
        c == n * SumSeq([ i \in DOMAIN idx |-> xs[i] * ys[i] ]) - SumSeq(xs) * SumSeq(ys)
        vx == n * SumSeq([ i \in DOMAIN idx |-> xs[i] * xs[i] ]) - SumSeq(xs) * SumSeq(xs)
        vy == n * SumSeq([ i \in DOMAIN idx |-> ys[i] * ys[i] ]) - SumSeq(ys) * SumSeq(ys)
    IN  vx > 0 /\ vy > 0 /\ 100 * c * c > 49 * vx * vy

\* routes.py 256-265: the pairs i < j by position, in loop order; the rounded
\* coefficient is a floating-point result and is left out of the pair.
RECURSIVE HighCorrFrom(_, _, _, _)
HighCorrFrom(df, cols, i, j) ==
    IF i > Len(cols) THEN <<>>
    ELSE IF j > Len(cols) THEN HighCorrFrom(df, cols, i + 1, i + 2)
    ELSE (IF HighCorr(df, cols[i], cols[j])
          THEN << [col1 |-> cols[i], col2 |-> cols[j]] >>
          ELSE <<>>) \o HighCorrFrom(df, cols, i, j + 1)

\* routes.py 251-266: a dict, here a function on the set of its keys
correlations(df, numeric_cols) ==
    IF Len(numeric_cols) > 1
    THEN [ k \in {"high_correlations"} |-> HighCorrFrom(df, numeric_cols, 1, 2) ]
    ELSE <<>>

\* routes.py 203: (df.isnull().sum() / len(df) * 100).round(2).to_dict()
missing_percentages(df) ==
    [ c \in Range(df.columns) |-> Percent(isnull_sum(df)[c], NRows(df)) ]

\* routes.py 269-271
completeness_score(df) == OneMinusPercent(total_missing(df), NRows(df) * NCols(df))

\* routes.py 272
uniqueness_score(df) ==
    IF NRows(df) > 0 THEN OneMinusPercent(duplicated_sum(df), NRows(df)) ELSE Num(10000)

\* routes.py 273: round((completeness_score + uniqueness_score) / 2, 2)
data_quality_score(completeness, uniqueness) ==
    IF completeness.nan \/ uniqueness.nan THEN NaN
    ELSE Num(RoundDiv(completeness.v + uniqueness.v, 2))

\* routes.py 339: a comparison with NaN is False
quality_level(score) ==
    IF ~score.nan /\ score.v >= 9000 THEN "excellent"
    ELSE IF ~score.nan /\ score.v >= 7000 THEN "good"
    ELSE IF ~score.nan /\ score.v >= 5000 THEN "fair"
    ELSE "poor"

\* ------------------------------------------------------------------ upload_dataset
\* round(file_size / (1024 * 1024), 2), in hundredths
file_size_mb(file_size) ==
    (file_size \div (1024 * 1024)) * 100
        + RoundDiv((file_size % (1024 * 1024)) * 100, 1024 * 1024)

\* routes.py 70-77 and 182-189: the reader the extension selects, applied to the
\* file at file_path; raised is the exception class, "" when a dataframe is returned
pd_read(files, file_path) ==
    IF file_path \notin DOMAIN files
    THEN [raised |-> "FileNotFoundError", df |-> Truncated]
    ELSE IF files[file_path].kind = "table"
    THEN [raised |-> "", df |-> files[file_path]]
    ELSE [raised |-> files[file_path].error, df |-> Truncated]

\* routes.py 94-113; memory_usage_mb is pandas' own estimate and is left out
dataset_info(dataset_id, filename, file_ext, file_size, file_path, df) ==
    [ dataset_id |-> dataset_id,
      filename |-> filename,
      file_type |-> FileType(file_ext),
      file_size |-> file_size,
      file_size_mb |-> file_size_mb(file_size),
      rows |-> NRows(df),
      columns |-> NCols(df),
      column_names |-> df.columns,
      dtypes |-> df.dtypes,
      numeric_columns |-> select_dtypes(df, {"number"}),
      categorical_columns |-> select_dtypes(df, {"object", "category"}),
      datetime_columns |-> select_dtypes(df, {"datetime"}),
      missing_values |-> isnull_sum(df),
      total_missing |-> total_missing(df),
      duplicate_rows |-> duplicated_sum(df),
      file_path |-> file_path,
      preview |-> Head5(df) ]

\* routes.py 66-87: the exception the inner try block raises, "" when it reaches
\* the registration; a supported extension always has a reader, so df is not None
UploadRaises(files, file_path, file_ext) ==
    LET rd == pd_read(files, file_path)
    IN  IF file_ext \notin SUPPORTED_EXTENSIONS THEN "HTTPException"
        ELSE IF rd.raised # "" THEN rd.raised
        ELSE IF IsEmpty(rd.df) THEN "HTTPException"
        ELSE IF NCols(rd.df) = 0 THEN "HTTPException"
        ELSE ""

\* routes.py 124-155: the status of the HTTPException the inner handlers raise for
\* an exception of class cls; HTTPException itself is no ValueError and falls to
\* `except Exception`
InnerHandlerStatus(cls) ==
    CASE cls = "EmptyDataError" -> 400
      [] cls = "ParserError" -> 400
      [] cls = "ValueError" -> 400
      [] OTHER -> 500

\* routes.py 157-161: the outer `except Exception` catches whatever the try block
\* lets out, the inner handlers' HTTPException included, and raises its own
OuterHandlerStatus(raised_status) == 500

\* uuid4 returning an id it has returned before
uuid4_Repeats(used) == { IdNames[1] }

\* str(uuid.uuid4()): an id never returned before.  Which one is of no
\* consequence, so the first unused of IdNames stands for all of them.
uuid4(used) ==
    { IdNames[i] : i \in { k \in 1..(MaxUploads + 1) :
                             /\ IdNames[k] \notin used
                             /\ \A m \in 1..(k - 1) : IdNames[m] \in used } }

Idle ==
    [ pc |-> "idle", filename |-> <<>>, body |-> [size |-> 0, content |-> Truncated],
      dataset_id |-> "", file_path |-> <<>>, status |-> 0, detail |-> "", raised |-> "" ]

Finish(u, status, detail, raised) ==
    up' = [up EXCEPT ![u].pc = "done", ![u].status = status, ![u].detail = detail,
                     ![u].raised = raised]

PutFile(files, path, content) ==
    [ p \in DOMAIN files \cup {path} |-> IF p = path THEN content ELSE files[p] ]

\* datasets_metadata[dataset_id] = dataset_info
Register(registry, dataset_id, info) ==
    [ d \in DOMAIN registry \cup {dataset_id} |->
        IF d = dataset_id THEN info ELSE registry[d] ]

\* os.remove(path), for a path that may not exist
RemoveFile(files, path) == [ p \in DOMAIN files \ {path} |-> files[p] ]

\* Cleanup with the os.remove left out
Cleanup_Skipped(files, file_path) == files

\* routes.py 125-127, 131-133, 140-142, 149-151: every inner handler removes the
\* file if it exists
Cleanup(files, file_path) == RemoveFile(files, file_path)

\* ------------------------------------------------------------------ requests
\* the file names clients send
NoFilename == <<>>
CsvName == <<"d", ".", "c", "s", "v">>
TxtName == <<"d", ".", "t", "x", "t">>
JsonName == <<"D", ".", "J", "S", "O", "N">>
DotName == <<".", "c", "s", "v">>
ParquetName == <<"d", ".", "p", "a", "r", "q", "u", "e", "t">>

\* age: 2, 3, null, 2; city: NY, LA, NY, NY.  One numeric column; row 4 repeats row 1.
People ==
    Table(<<"age", "city">>, <<"float64", "object">>,
          << << <<2>>, <<"NY">> >>, << <<3>>, <<"LA">> >>,
             << <<>>, <<"NY">> >>, << <<2>>, <<"NY">> >> >>)

\* a parquet table: a timezone-aware timestamp, a naive one, two numeric columns
\* with y = 2x, and a boolean one
Events ==
    Table(<<"at", "day", "x", "y", "flag">>,
          <<"datetime64[ns, UTC]", "datetime64[ns]", "int64", "int64", "bool">>,
          << << <<10>>, <<10>>, <<1>>, <<2>>, <<TRUE>> >>,
             << <<12>>, <<>>, <<0>>, <<0>>, <<FALSE>> >>,
             << <<15>>, <<13>>, <<-1>>, <<-2>>, <<TRUE>> >> >>)

\* a header line and no rows
HeaderOnly == Table(<<"a", "b">>, <<"object", "object">>, <<>>)

Request(filename, size, content) ==
    [filename |-> filename, body |-> [size |-> size, content |-> content]]

\* the upload requests clients send: a file name, len(file_content) and what a
\* reader makes of the bytes
Requests ==
    { Request(NoFilename, MAX_UPLOAD_SIZE + 1, People),
      Request(TxtName, MAX_UPLOAD_SIZE + 1, People),
      Request(CsvName, MAX_UPLOAD_SIZE + 1, People),
      Request(DotName, 0, Truncated),
      Request(JsonName, 0, Truncated),
      Request(JsonName, 40, People),
      Request(CsvName, 4, HeaderOnly),
      Request(CsvName, 9, Unreadable("ParserError")),
      Request(ParquetName, MAX_UPLOAD_SIZE, Events) }

\* the request among them the environment's specification keeps
WellFormed == { Request(JsonName, 40, People) }

\* what another process can leave in place of a file of the temp directory
ExternalContents == { HeaderOnly, Unreadable("ParserError") }

\* routes.py 33-42: the HTTPException for the file name, status 0 for none
NameRejection(filename) ==
    IF filename = <<>>
    THEN [status |-> 400, detail |-> "No filename provided"]
    ELSE IF FileExt(filename) \notin SUPPORTED_EXTENSIONS
    THEN [status |-> 400, detail |-> "Unsupported file type"]
    ELSE [status |-> 0, detail |-> ""]

\* SizeRejection with the limit itself refused (>= for >)
SizeRejection_AtLimit(file_size) ==
    IF file_size >= MAX_UPLOAD_SIZE
    THEN [status |-> 413, detail |-> "File too large"]
    ELSE IF file_size = 0
    THEN [status |-> 400, detail |-> "Empty file uploaded"]
    ELSE [status |-> 0, detail |-> ""]

\* routes.py 46-55: the HTTPException for len(file_content), status 0 for none
SizeRejection(file_size) ==
    IF file_size > MAX_UPLOAD_SIZE
    THEN [status |-> 413, detail |-> "File too large"]
    ELSE IF file_size = 0
    THEN [status |-> 400, detail |-> "Empty file uploaded"]
    ELSE [status |-> 0, detail |-> ""]

\* routes.py 29-45: the request arrives; the name and the extension are checked
\* before the first await (file.read())
UploadStart(u, filename, body) ==
    /\ up[u].pc = "idle"
    /\ \A v \in Uploads : v < u => up[v].pc # "idle"
    /\ LET req == [up EXCEPT ![u].filename = filename, ![u].body = body]
           rejection == NameRejection(filename)
       IN  IF rejection.status # 0
           THEN up' = [req EXCEPT ![u].pc = "done", ![u].status = rejection.status,
                                  ![u].detail = rejection.detail]
           ELSE up' = [req EXCEPT ![u].pc = "read"]
    /\ UNCHANGED <<datasets_metadata, disk, issued, last, nExternal>>

\* routes.py 45-63: file.read() returns; the size is checked, the id and the path
\* are made, and the handler awaits aiofiles.open
UploadRead(u) ==
    /\ up[u].pc = "read"
    /\ LET file_ext == FileExt(up[u].filename)
           rejection == SizeRejection(up[u].body.size)
       IN  IF rejection.status # 0
           THEN Finish(u, rejection.status, rejection.detail, "") /\ UNCHANGED issued
           ELSE \E dataset_id \in uuid4(issued) :
                   /\ up' = [up EXCEPT ![u].pc = "open", ![u].dataset_id = dataset_id,
                                       ![u].file_path = FilePath(dataset_id, file_ext)]
                   /\ issued' = issued \cup {dataset_id}
    /\ UNCHANGED <<datasets_metadata, disk, last, nExternal>>

\* routes.py 63: aiofiles.open(file_path, 'wb') creates the file, or raises
\* OSError, which the outer handler turns into a 500
UploadOpen(u) ==
    /\ up[u].pc = "open"
    /\ \E ok \in BOOLEAN :
          IF ok
          THEN /\ disk' = PutFile(disk, up[u].file_path, Truncated)
               /\ up' = [up EXCEPT ![u].pc = "write"]
          ELSE /\ Finish(u, OuterHandlerStatus(0), "Error saving file", "OSError")
               /\ UNCHANGED disk
    /\ UNCHANGED <<datasets_metadata, issued, last, nExternal>>

\* routes.py 64: f.write(file_content) completes, or raises OSError and leaves
\* the file as it is; the handler then awaits the close of the file
UploadWrite(u) ==
    /\ up[u].pc = "write"
    /\ \E ok \in BOOLEAN :
          IF ok
          THEN /\ disk' = PutFile(disk, up[u].file_path, up[u].body.content)
               /\ up' = [up EXCEPT ![u].pc = "close"]
          ELSE /\ Finish(u, OuterHandlerStatus(0), "Error saving file", "OSError")
               /\ UNCHANGED disk
    /\ UNCHANGED <<datasets_metadata, issued, last, nExternal>>

\* routes.py 66-161: the file is closed; the rest of the handler has no await.
\* The file is read back and validated; on success the dataset is registered, on
\* any exception the inner handler removes the file and raises, and the outer
\* handler catches that
UploadProcess(u) ==
    /\ up[u].pc = "close"
    /\ LET file_path == up[u].file_path
           file_ext == FileExt(up[u].filename)
           raised == UploadRaises(disk, file_path, file_ext)
           info == dataset_info(up[u].dataset_id, up[u].filename, file_ext,
                                up[u].body.size, file_path, pd_read(disk, file_path).df)
       IN  IF raised = ""
           THEN /\ datasets_metadata' = Register(datasets_metadata, up[u].dataset_id, info)
                /\ Finish(u, 200, "Dataset uploaded and validated successfully", "")
                /\ UNCHANGED disk
           ELSE /\ disk' = Cleanup(disk, file_path)
                /\ Finish(u, OuterHandlerStatus(InnerHandlerStatus(raised)),
                          "Error saving file", raised)
                /\ UNCHANGED datasets_metadata
    /\ UNCHANGED <<issued, last, nExternal>>

\* ------------------------------------------------------------------ analyze_dataset
\* routes.py 276-347; by_column_bytes, total_memory_mb and avg_row_size_bytes are
\* pandas' own estimates and are left out
analysis_result(dataset_id, metadata, df) ==
    LET numeric_cols == select_dtypes(df, {"number"})
        categorical_cols == select_dtypes(df, {"object", "category"})
        datetime_cols == select_dtypes(df, {"datetime", "datetime64"})
        boolean_cols == select_dtypes(df, {"bool"})
        missing_values == isnull_sum(df)
        duplicate_rows == duplicated_sum(df)
        completeness == completeness_score(df)
        uniqueness == uniqueness_score(df)
        score == data_quality_score(completeness, uniqueness)
    IN  [ dataset_id |-> dataset_id,
          filename |-> metadata.filename,
          file_type |-> metadata.file_type,
          basic_info |->
              [ rows |-> NRows(df), columns |-> NCols(df),
                total_cells |-> NRows(df) * NCols(df),
                column_names |-> df.columns, dtypes |-> df.dtypes,
                shape |-> <<NRows(df), NCols(df)>> ],
          column_types |->
              [ numeric_columns |-> numeric_cols,
                categorical_columns |-> categorical_cols,
                datetime_columns |-> datetime_cols,
                boolean_columns |-> boolean_cols,
                numeric_count |-> Len(numeric_cols),
                categorical_count |-> Len(categorical_cols),
                datetime_count |-> Len(datetime_cols),
                boolean_count |-> Len(boolean_cols) ],
          missing_values |->
              [ by_column |-> missing_values,
                percentages |-> missing_percentages(df),
                total_missing |-> total_missing(df),
                columns_with_missing |->
                    SelectSeq(df.columns, LAMBDA col : missing_values[col] > 0) ],
          duplicates |->
              [ duplicate_rows |-> duplicate_rows,
                duplicate_percentage |->
                    IF NRows(df) > 0 THEN Percent(duplicate_rows, NRows(df)) ELSE Num(0) ],
          statistics |->
              [ numeric_columns |-> numeric_stats(df, numeric_cols),
                categorical_columns |-> categorical_stats(df, categorical_cols),
                datetime_columns |-> datetime_stats(df, datetime_cols) ],
          correlations |-> correlations(df, numeric_cols),
          data_quality |->
              [ overall_score |-> score,
                completeness_score |-> completeness,
                uniqueness_score |-> uniqueness,
                quality_level |-> quality_level(score) ],
          preview |-> [ head |-> Head5(df), tail |-> Tail5(df) ] ]

NoData == <<>>

\* AnalyzeNotFound without the os.path.exists check
AnalyzeNotFound_IdOnly(registry, files, dataset_id) ==
    IF dataset_id \notin DOMAIN registry
    THEN [status |-> 404, detail |-> "Dataset not found"]
    ELSE [status |-> 0, detail |-> ""]

\* routes.py 168-176: the HTTPException raised before the try block, 0 for none
AnalyzeNotFound(registry, files, dataset_id) ==
    IF dataset_id \notin DOMAIN registry
    THEN [status |-> 404, detail |-> "Dataset not found"]
    ELSE IF registry[dataset_id].file_path \notin DOMAIN files
    THEN [status |-> 404, detail |-> "Dataset file not found"]
    ELSE [status |-> 0, detail |-> ""]

\* routes.py 165-359: the handler has no await; it answers from the registry and
\* the file alone
AnalyzeResponse(registry, files, dataset_id) ==
    LET missing == AnalyzeNotFound(registry, files, dataset_id)
    IN  IF missing.status # 0
        THEN [status |-> missing.status, detail |-> missing.detail, data |-> NoData]
        ELSE LET metadata == registry[dataset_id]
                 file_path == metadata.file_path
                 rd == pd_read(files, file_path)
             IN  IF FileExt(file_path) \notin SUPPORTED_EXTENSIONS \/ rd.raised # ""
                 THEN [status |-> 500, detail |-> "Error analyzing dataset",
                       data |-> NoData]
                 ELSE [status |-> 200, detail |-> "Dataset analyzed successfully",
                       data |-> analysis_result(dataset_id, metadata, rd.df)]

\* what the file of a registered dataset holds, None when there is none
BackingFile(registry, files, dataset_id) ==
    IF dataset_id \in DOMAIN registry /\ registry[dataset_id].file_path \in DOMAIN files
    THEN Some(files[registry[dataset_id].file_path])
    ELSE None

\* before any call of analyze_dataset
NoCall ==
    [ dataset_id |-> "", registered |-> FALSE, file |-> None, repeated |-> FALSE,
      response |-> [status |-> 0, detail |-> "", data |-> NoData] ]

\* Analyze removing the temp file once it has answered
Analyze_RemovesFile(dataset_id) ==
    /\ last' =
          [ dataset_id |-> dataset_id,
            registered |-> dataset_id \in DOMAIN datasets_metadata,
            file |-> BackingFile(datasets_metadata, disk, dataset_id),
            repeated |-> /\ last.dataset_id = dataset_id
                         /\ last.registered
                         /\ last.file = BackingFile(datasets_metadata, disk, dataset_id),
            response |-> AnalyzeResponse(datasets_metadata, disk, dataset_id) ]
    /\ disk' = IF dataset_id \in DOMAIN datasets_metadata
               THEN RemoveFile(disk, datasets_metadata[dataset_id].file_path)
               ELSE disk
    /\ UNCHANGED <<up, datasets_metadata, issued, nExternal>>

\* one call of analyze_dataset.  The call is kept with what it found (whether the
\* id was registered, the backing file) and its response; repeated says that the
\* call before it was for the same registered dataset with the same backing file
Analyze(dataset_id) ==
    /\ last' =
          [ dataset_id |-> dataset_id,
            registered |-> dataset_id \in DOMAIN datasets_metadata,
            file |-> BackingFile(datasets_metadata, disk, dataset_id),
            repeated |-> /\ last.dataset_id = dataset_id
                         /\ last.registered
                         /\ last.file = BackingFile(datasets_metadata, disk, dataset_id),
            response |-> AnalyzeResponse(datasets_metadata, disk, dataset_id) ]
    /\ UNCHANGED <<up, datasets_metadata, disk, issued, nExternal>>

\* ------------------------------------------------------------------ environment
\* another process removes a file of the temp directory
ExternalRemove(path) ==
    /\ nExternal < MaxExternal
    /\ path \in DOMAIN disk
    /\ disk' = RemoveFile(disk, path)
    /\ nExternal' = nExternal + 1
    /\ UNCHANGED <<up, datasets_metadata, issued, last>>

\* another process rewrites a file of the temp directory
ExternalReplace(path, content) ==
    /\ nExternal < MaxExternal
    /\ path \in DOMAIN disk
    /\ disk[path] # content
    /\ disk' = PutFile(disk, path, content)
    /\ nExternal' = nExternal + 1
    /\ UNCHANGED <<up, datasets_metadata, issued, last>>

\* ------------------------------------------------------------------ specification
Init ==
    /\ up = [ u \in Uploads |-> Idle ]
    /\ datasets_metadata = <<>>
    /\ disk = <<>>
    /\ issued = {}
    /\ last = NoCall
    /\ nExternal = 0

ServeFrom(requests) ==
    \/ \E u \in Uploads, request \in requests :
          UploadStart(u, request.filename, request.body)
    \/ \E u \in Uploads : UploadRead(u)
    \/ \E u \in Uploads : UploadOpen(u)
    \/ \E u \in Uploads : UploadWrite(u)
    \/ \E u \in Uploads : UploadProcess(u)
    \/ \E dataset_id \in Ids : Analyze(dataset_id)

Next == ServeFrom(Requests)

\* the process alone: nothing else touches the temp directory
Spec == Init /\ [][Next]_vars

\* The process among others that remove or rewrite files of the temp directory.
\* The clients here send well-formed files only; the rejections are Spec's.
NextEnv ==
    \/ ServeFrom(WellFormed)
    \/ \E path \in DOMAIN disk : ExternalRemove(path)
    \/ \E path \in DOMAIN disk, content \in ExternalContents :
          ExternalReplace(path, content)

SpecEnv == Init /\ [][NextEnv]_vars

\* ------------------------------------------------------------------ properties
Done(u) == up[u].pc = "done"
Succeeded(u) == Done(u) /\ up[u].status = 200
\* no request is between its arrival and its response
Quiescent == \A u \in Uploads : up[u].pc \in {"idle", "done"}
\* the step is a call of analyze_dataset (a call that repeats the one before it
\* in every respect leaves `last` as it is, and there is nothing to compare)
AnalyzeStep == last' # last
Answered200 == last.response.status = 200
Profile == last.response.data

\* C1: an upload whose content the format parser cannot read (ParserError) is
\* answered 400, its temp file is removed and nothing is registered for it.
C1_ParseErrorAnswers400 ==
    \A u \in Uploads :
        (Done(u) /\ up[u].raised = "ParserError")
            => /\ up[u].status = 400
               /\ up[u].file_path \notin DOMAIN disk
               /\ up[u].dataset_id \notin DOMAIN datasets_metadata

\* the rejection the precedence of C2 gives a request, 0 for none
ClaimedRejection(filename, size) ==
    IF filename = <<>> THEN 400
    ELSE IF FileExt(filename) \notin SUPPORTED_EXTENSIONS THEN 400
    ELSE IF size > 100 * 1024 * 1024 THEN 413
    ELSE IF size = 0 THEN 400
    ELSE 0

\* C2: the rejection of an upload is decided by the request alone, in the order
\* missing name (400), unsupported extension (400), over 100MB (413), empty (400):
\* a request the order rejects never gets an id or a path and ends with that
\* status, a request ends in the validation only if the order rejects it, and the
\* rejecting step writes no file and leaves the registry as it is.
C2_RejectionPrecedence ==
    [][ \A u \in Uploads :
          LET claimed == ClaimedRejection(up'[u].filename, up'[u].body.size)
          IN  /\ (up[u].pc \in {"idle", "read"} /\ up'[u].pc = "done")
                    => /\ claimed # 0
                       /\ up'[u].status = claimed
                       /\ UNCHANGED <<disk, datasets_metadata>>
              /\ (claimed # 0 /\ up'[u].pc # "idle")
                    => /\ up'[u].pc \in {"read", "done"}
                       /\ up'[u].dataset_id = "" /\ up'[u].file_path = <<>>
                       /\ (up'[u].pc = "done" => up'[u].status = claimed) ]_vars

\* C2's case: an oversized file with an unsupported extension answered 400, and an
\* oversized file with a supported one answered 413
C2_Witness ==
    \E u, v \in Uploads :
        /\ Done(u) /\ up[u].status = 400 /\ up[u].filename # <<>>
        /\ up[u].body.size > MAX_UPLOAD_SIZE
        /\ Done(v) /\ up[v].status = 413

\* C3: analyze_dataset answers 404 exactly when the id is not in the registry or
\* the registered file is not on disk.
C3_NotFoundExactly ==
    [][ AnalyzeStep =>
          (last'.response.status = 404
              <=> \/ last'.dataset_id \notin DOMAIN datasets_metadata
                  \/ datasets_metadata[last'.dataset_id].file_path \notin DOMAIN disk)
      ]_vars

\* C3's case: a registered dataset whose file is gone, answered 404
C3_Witness == last.registered /\ last.file = None /\ last.response.status = 404

RecognizedDtypes == {"int64", "float64", "object", "category", "datetime64[ns]", "bool"}

Occurrences(list, c) == Cardinality({ i \in DOMAIN list : list[i] = c })

\* C4: in every profile the numeric, categorical, datetime and boolean lists keep
\* the column order and hold every column exactly once between them, and a
\* column of a type that is none of the recognized ones is in the categorical list.
C4_TypeListsPartitionColumns ==
    Answered200 =>
        LET cols == Profile.basic_info.column_names
            types == Profile.column_types
            lists == << types.numeric_columns, types.categorical_columns,
                        types.datetime_columns, types.boolean_columns >>
        IN  /\ \A c \in Range(cols) :
                  SumSeq([ k \in 1..4 |-> Occurrences(lists[k], c) ]) = 1
            /\ \A k \in 1..4 :
                  lists[k] = SelectSeq(cols, LAMBDA c : c \in Range(lists[k]))
            /\ \A i \in DOMAIN cols :
                  Profile.basic_info.dtypes[i] \notin RecognizedDtypes
                      => cols[i] \in Range(types.categorical_columns)

\* the number of numeric columns of the file the latest call found
NumericColumnsFound ==
    Len(SelectSeq(last.file[1].dtypes,
                  LAMBDA t : t \in {"int64", "float64", "timedelta64[ns]"}))

\* C5: the analysis of a dataset with fewer than 2 numeric columns succeeds with
\* a list of high-correlation pairs that is present and empty, and with no
\* numeric column the numeric statistics are empty.
C5_FewNumericColumnsEmptyPairs ==
    (last.registered /\ last.file # None /\ last.file[1].kind = "table"
        /\ NumericColumnsFound < 2)
        => /\ Answered200
           /\ "high_correlations" \in DOMAIN Profile.correlations
           /\ Profile.correlations["high_correlations"] = <<>>
           /\ (NumericColumnsFound = 0
                  => DOMAIN Profile.statistics.numeric_columns = {})

InRange(x) == ~x.nan /\ 0 <= x.v /\ x.v <= 10000

\* C7: in every profile the completeness, uniqueness and overall scores are in
\* [0, 100], the overall score is their mean to within the rounding, and the
\* quality level is the tier of the overall score.
C7_ScoresAndLevel ==
    Answered200 =>
        LET q == Profile.data_quality
            overall == q.overall_score.v
        IN  /\ InRange(q.completeness_score)
            /\ InRange(q.uniqueness_score)
            /\ InRange(q.overall_score)
            /\ Abs(2 * overall - (q.completeness_score.v + q.uniqueness_score.v)) <= 1
            /\ q.quality_level =
                  (IF overall >= 9000 THEN "excellent"
                   ELSE IF overall >= 7000 THEN "good"
                   ELSE IF overall >= 5000 THEN "fair" ELSE "poor")

\* C8: the analysis of a dataset with no rows is answered with a profile in which
\* every missing percentage is 0, total_cells is 0, the completeness score is a
\* number, the uniqueness score is 100 and the duplicate percentage is 0.
C8_ZeroRowsProfile ==
    (last.registered /\ last.file # None /\ last.file[1].kind = "table"
        /\ last.file[1].rows = <<>>)
        => /\ Answered200
           /\ \A c \in DOMAIN Profile.missing_values.percentages :
                  Profile.missing_values.percentages[c] = Num(0)
           /\ Profile.basic_info.total_cells = 0
           /\ ~Profile.data_quality.completeness_score.nan
           /\ Profile.data_quality.uniqueness_score = Num(10000)
           /\ Profile.duplicates.duplicate_percentage = Num(0)

\* C9: the uploads that succeeded have ids and paths of their own, each has its
\* registry entry, no step removes or changes an entry of the registry, and a
\* call of analyze_dataset for a registered id finds it.
C9_EntriesPersist ==
    [][ /\ \A u, v \in Uploads :
              (Succeeded(u)' /\ Succeeded(v)' /\ u # v)
                  => /\ up'[u].dataset_id # up'[v].dataset_id
                     /\ up'[u].file_path # up'[v].file_path
        /\ \A u \in Uploads :
              Succeeded(u)'
                  => /\ up'[u].dataset_id \in DOMAIN datasets_metadata'
                     /\ datasets_metadata'[up'[u].dataset_id].file_path = up'[u].file_path
                     /\ datasets_metadata'[up'[u].dataset_id].filename = up'[u].filename
        /\ \A d \in DOMAIN datasets_metadata :
              /\ d \in DOMAIN datasets_metadata'
              /\ datasets_metadata'[d] = datasets_metadata[d]
        /\ (AnalyzeStep /\ last'.dataset_id \in DOMAIN datasets_metadata)
              => /\ last'.registered
                 /\ last'.response.status # 404 ]_vars

\* C9's case: two uploads have succeeded and an analysis has answered with a profile
C9_Witness ==
    /\ \E u, v \in Uploads : u # v /\ Succeeded(u) /\ Succeeded(v)
    /\ Answered200

BackingPaths == { datasets_metadata[d].file_path : d \in DOMAIN datasets_metadata }

\* the uploads whose f.write completed
Wrote(u) == Done(u) /\ up[u].file_path # <<>> /\ up[u].raised # "OSError"

\* C10: when no request is in progress, the files that the uploads wrote and that
\* are still on disk are the backing files of the registry, every one of which
\* exists and had a row and a column when registered, and an upload that failed
\* after writing its file has no file left and no entry.
C10_FilesMatchRegistry ==
    Quiescent =>
        /\ { up[u].file_path : u \in { w \in Uploads : Wrote(w) } } \cap DOMAIN disk
              = BackingPaths
        /\ \A d \in DOMAIN datasets_metadata :
              /\ datasets_metadata[d].rows >= 1
              /\ datasets_metadata[d].columns >= 1
        /\ \A u \in Uploads :
              (Wrote(u) /\ up[u].status # 200)
                  => /\ up[u].file_path \notin DOMAIN disk
                     /\ up[u].dataset_id \notin DOMAIN datasets_metadata

\* C10's case: one upload registered and another failed after writing its file
C10_Witness ==
    /\ Quiescent
    /\ \E u \in Uploads : Succeeded(u)
    /\ \E u \in Uploads : Wrote(u) /\ up[u].raised = "ParserError"

====
